---- MODULE Spec2Model ----
(***************************************************************************)
(* Model of scripts/generate_crates.py (class CrateGenerator): the crate   *)
(* partition, the component graph, the dependency resolver, the version    *)
(* policy and the manifest emitters.                                       *)
(*                                                                         *)
(* Python values are modelled as follows.                                  *)
(*   dict with insertion order  -> sequence of records (crate_mapping)     *)
(*   list of member names       -> set (the lists of the source hold no    *)
(*                                 repeated name, and the code only tests  *)
(*                                 membership and iterates over them)      *)
(*   dict of nodes              -> function whose DOMAIN is the declared   *)
(*                                 components                              *)
(*   list of edges              -> sequence of records [from, to]          *)
(*   set of str                 -> set; its iteration order depends on the *)
(*                                 per-process string hash seed, so every  *)
(*                                 order is a possible outcome             *)
(***************************************************************************)
EXTENDS Naturals, Sequences, FiniteSets

VARIABLES crate_mapping, nodes, edges, op, arg, ret, pc, events, files

vars == <<crate_mapping, nodes, edges, op, arg, ret, pc, events, files>>

\* The state of run(): where it stands, what it has done, what it has written.
run_vars == <<pc, events, files>>

\* run() has not been called.
RunIdle ==
    /\ pc = [at |-> "idle", created |-> 0]
    /\ events = <<>>
    /\ files = <<>>

(***************************************************************************)
(* Bounds of the model.                                                    *)
(***************************************************************************)
MaxEdges == 2
MaxPartitionEdges == 1
MaxMembers == 5

\* Component and crate names, taken from the configuration of the source.
Components == {"types", "graph_vertex", "graph_core"}
CrateNames == {"kotoba-core", "kotoba-graph", "kotoba-storage"}
Status == {"completed", "in_progress", "pending"}

DefaultCrate == "kotoba-core"

(***************************************************************************)
(* Generic helpers.                                                        *)
(***************************************************************************)
Range(s) == {s[i] : i \in 1..Len(s)}

\* Every sequence that lists the elements of S exactly once.
Orders(S) == {s \in [1..Cardinality(S) -> S] : Range(s) = S}

SeqsUpTo(S, n) == UNION {[1..k -> S] : k \in 0..n}

(***************************************************************************)
(* crate_mapping: dict access.                                             *)
(***************************************************************************)
Keys(m) == [i \in 1..Len(m) |-> m[i].name]

HasCrate(m, crate_name) == \E i \in 1..Len(m) : m[i].name = crate_name

\* self.crate_mapping[crate_name]
MembersOf(m, crate_name) ==
    m[CHOOSE i \in 1..Len(m) : m[i].name = crate_name].components

\* self.crate_mapping.get(crate_name, [])
MembersOrEmpty(m, crate_name) ==
    IF HasCrate(m, crate_name) THEN MembersOf(m, crate_name) ELSE {}

(***************************************************************************)
(* _get_crate_from_component: the first crate, in insertion order, that    *)
(* lists the component; the default crate when none does.                  *)
(***************************************************************************)
\* Variant: no fallback, an unlisted component has no crate.
GetCrateFromComponentNoDefault(m, component) ==
    LET hits == {i \in 1..Len(m) : component \in m[i].components}
    IN  IF hits = {} THEN "" ELSE m[CHOOSE i \in hits : \A j \in hits : i <= j].name

GetCrateFromComponent(m, component) ==
    LET hits == {i \in 1..Len(m) : component \in m[i].components}
    IN  IF hits = {}
        THEN DefaultCrate
        ELSE m[CHOOSE i \in hits : \A j \in hits : i <= j].name

(***************************************************************************)
(* _get_crate_dependencies, in its three steps.                            *)
(***************************************************************************)
\* Variant: the producers of every edge, whatever its consumer.
AllDepsAnyConsumer(m, nd, ed, crate_name) ==
    {ed[i].from : i \in {j \in 1..Len(ed) : TRUE}}

\* Variant: the producers of the producers are followed too.
AllDepsTwoHops(m, nd, ed, crate_name) ==
    LET comps == {comp \in MembersOf(m, crate_name) : comp \in DOMAIN nd}
        direct == {ed[i].from : i \in {j \in 1..Len(ed) : ed[j].to \in comps}}
    IN  direct \cup {ed[i].from : i \in {j \in 1..Len(ed) : ed[j].to \in direct}}

\* all_deps: the producers of every declared component of the crate.
AllDeps(m, nd, ed, crate_name) ==
    LET comps == {comp \in MembersOf(m, crate_name) : comp \in DOMAIN nd}
    IN  {ed[i].from : i \in {j \in 1..Len(ed) : ed[j].to \in comps}}

\* Variant: without the test dep_crate != crate_name.
ExternalDepsNoFilter(m, crate_name, order) ==
    [i \in 1..Len(order) |-> GetCrateFromComponent(m, order[i])]

\* external_deps: one entry per producer, in the iteration order of all_deps,
\* keeping the producers owned by another crate.
ExternalDeps(m, crate_name, order) ==
    LET owners == [i \in 1..Len(order) |-> GetCrateFromComponent(m, order[i])]
    IN  SelectSeq(owners, LAMBDA dep_crate : dep_crate # crate_name)

\* Variant: external_deps returned as it is.
ListOfSetNoDedup(external_deps) == {external_deps}

\* list(set(external_deps)): the possible results.
ListOfSet(external_deps) == Orders(Range(external_deps))

\* The possible return values of _get_crate_dependencies.
CrateDependencies(m, nd, ed, crate_name) ==
    IF ~HasCrate(m, crate_name)
    THEN {<<>>}
    ELSE UNION {ListOfSet(ExternalDeps(m, crate_name, order)) :
                    order \in Orders(AllDeps(m, nd, ed, crate_name))}

(***************************************************************************)
(* _get_crate_version.  The rate completed_count / total_count is a float  *)
(* division of two small integers, compared with the literals 0.8 and 0.5: *)
(* the division is correctly rounded, so rate >= 0.8 exactly when          *)
(* 5 * completed_count >= 4 * total_count (the two can differ only for     *)
(* counts beyond 2^50), and rate >= 0.5 exactly when                       *)
(* 2 * completed_count >= total_count.                                     *)
(***************************************************************************)
\* The members of the crate that the node table declares (total_count counts
\* these) and the completed ones among them (completed_count).
CountedMembers(m, nd, crate_name) ==
    {comp \in MembersOrEmpty(m, crate_name) : comp \in DOMAIN nd}

CompletedMembers(m, nd, crate_name) ==
    {comp \in CountedMembers(m, nd, crate_name) : nd[comp] = "completed"}

\* Variant: strict comparisons (> for >=).
VersionOfCountsStrict(completed_count, total_count) ==
    IF total_count = 0 THEN "0.1.0"
    ELSE IF 5 * completed_count > 4 * total_count THEN "0.1.0"
    ELSE IF 2 * completed_count > total_count THEN "0.1.0-alpha"
    ELSE "0.1.0-dev"

\* Variant: the labels of the two upper branches exchanged.
VersionOfCountsSwapped(completed_count, total_count) ==
    IF total_count = 0 THEN "0.1.0"
    ELSE IF 5 * completed_count >= 4 * total_count THEN "0.1.0-alpha"
    ELSE IF 2 * completed_count >= total_count THEN "0.1.0"
    ELSE "0.1.0-dev"

VersionOfCounts(completed_count, total_count) ==
    IF total_count = 0 THEN "0.1.0"
    ELSE IF 5 * completed_count >= 4 * total_count THEN "0.1.0"
    ELSE IF 2 * completed_count >= total_count THEN "0.1.0-alpha"
    ELSE "0.1.0-dev"

GetCrateVersion(m, nd, crate_name) ==
    VersionOfCounts(Cardinality(CompletedMembers(m, nd, crate_name)),
                    Cardinality(CountedMembers(m, nd, crate_name)))

(***************************************************************************)
(* generate_cargo_toml and generate_workspace_cargo_toml.  The text of a   *)
(* manifest is modelled by the values the template is filled with, in the  *)
(* order in which they are written.                                        *)
(***************************************************************************)
\* self.common_deps, in insertion order.
CommonDeps ==
    << [name |-> "serde", kind |-> "registry", version |-> "1.0"],
       [name |-> "serde_json", kind |-> "registry", version |-> "1.0"],
       [name |-> "thiserror", kind |-> "registry", version |-> "2.0"],
       [name |-> "anyhow", kind |-> "registry", version |-> "1.0"] >>

\* crate_name.split('-')[1].title()
Title(crate_name) ==
    CASE crate_name = "kotoba-core" -> "Core"
      [] crate_name = "kotoba-graph" -> "Graph"
      [] crate_name = "kotoba-storage" -> "Storage"
      [] crate_name = "kotoba-execution" -> "Execution"
      [] crate_name = "kotoba-rewrite" -> "Rewrite"
      [] crate_name = "kotoba-server" -> "Server"

WasmCrates == {"kotoba-core", "kotoba-graph", "kotoba-server"}

\* Variant: a fixed version in place of the computed one.
InternalEntriesPinned(m, nd, crate_name, dependencies) ==
    LET kept == SelectSeq(dependencies, LAMBDA dep : dep # "" /\ dep # crate_name)
    IN  [i \in 1..Len(kept) |-> [name |-> kept[i], kind |-> "path", version |-> "0.1.0"]]

\* The entries written for the internal dependencies, in the order of the list.
InternalEntries(m, nd, crate_name, dependencies) ==
    LET kept == SelectSeq(dependencies, LAMBDA dep : dep # "" /\ dep # crate_name)
    IN  [i \in 1..Len(kept) |->
            [name |-> kept[i], kind |-> "path",
             version |-> GetCrateVersion(m, nd, kept[i])]]

CargoToml(m, nd, crate_name, dependencies) ==
    [name |-> crate_name,
     version |-> GetCrateVersion(m, nd, crate_name),
     description |-> Title(crate_name),
     dependencies |-> CommonDeps \o InternalEntries(m, nd, crate_name, dependencies),
     wasm |-> crate_name \in WasmCrates]

\* Variant: the members in alphabetical order.
WorkspaceMembersSorted(m) ==
    SelectSeq(<<"kotoba-core", "kotoba-graph", "kotoba-storage">>,
              LAMBDA n : HasCrate(m, n)) \o <<"kotoba">>

WorkspaceMembers(m) == Keys(m) \o <<"kotoba">>

WorkspaceCargoToml(m) ==
    [members |-> WorkspaceMembers(m), version |-> "0.1.0", dependencies |-> CommonDeps]

(***************************************************************************)
(* Inputs: partitions, node tables and edge lists.                         *)
(***************************************************************************)
\* The order in which the source defines its crates.
CrateOrder == <<"kotoba-core", "kotoba-graph", "kotoba-storage">>

\* Every order of every choice of crates / the choices in the source's order.
KeySeqs == UNION {Orders(K) : K \in SUBSET CrateNames}

SortedKeySeqs == {SelectSeq(CrateOrder, LAMBDA n : n \in K) : K \in SUBSET CrateNames}

\* A partition: an ordered choice of crates and an owner (or none) for each
\* component.
MappingOf(ks, owner) ==
    [i \in 1..Len(ks) |->
        [name |-> ks[i], components |-> {c \in Components : owner[c] = ks[i]}]]

MappingsOver(keyseqs) ==
    UNION {{MappingOf(ks, owner) : owner \in [Components -> Range(ks) \cup {""}]} :
                ks \in keyseqs}

\* An edge joins two different components (no self-edges are expected).
EdgeRecs == {e \in [from : Components, to : Components] : e.from # e.to}

EdgeLists == SeqsUpTo(EdgeRecs, MaxEdges)

NodeTables(S) == UNION {[D -> S] : D \in SUBSET Components}

(***************************************************************************)
(* Operations.                                                             *)
(***************************************************************************)
GetCrateDependencies(crate_name) ==
    /\ \E deps \in CrateDependencies(crate_mapping, nodes, edges, crate_name) :
            ret' = deps
    /\ op' = "get_crate_dependencies"
    /\ arg' = crate_name
    /\ UNCHANGED <<crate_mapping, nodes, edges>>
    /\ UNCHANGED run_vars

GetCrateFromComponentOp(component) ==
    /\ ret' = GetCrateFromComponent(crate_mapping, component)
    /\ op' = "get_crate_from_component"
    /\ arg' = component
    /\ UNCHANGED <<crate_mapping, nodes, edges>>
    /\ UNCHANGED run_vars

GetCrateVersionOp(crate_name) ==
    /\ ret' = GetCrateVersion(crate_mapping, nodes, crate_name)
    /\ op' = "get_crate_version"
    /\ arg' = crate_name
    /\ UNCHANGED <<crate_mapping, nodes, edges>>
    /\ UNCHANGED run_vars

GenerateCargoToml(crate_name) ==
    /\ \E dependencies \in CrateDependencies(crate_mapping, nodes, edges, crate_name) :
            ret' = CargoToml(crate_mapping, nodes, crate_name, dependencies)
    /\ op' = "generate_cargo_toml"
    /\ arg' = crate_name
    /\ UNCHANGED <<crate_mapping, nodes, edges>>
    /\ UNCHANGED run_vars

GenerateWorkspaceCargoToml ==
    /\ ret' = WorkspaceCargoToml(crate_mapping)
    /\ op' = "generate_workspace_cargo_toml"
    /\ arg' = ""
    /\ UNCHANGED <<crate_mapping, nodes, edges>>
    /\ UNCHANGED run_vars

(***************************************************************************)
(* The dependency resolver on arbitrary partitions and graphs.             *)
(***************************************************************************)
InitResolve ==
    /\ crate_mapping \in MappingsOver(SortedKeySeqs)
    /\ nodes \in NodeTables({"completed"})
    /\ edges \in EdgeLists
    /\ op = "init"
    /\ arg = ""
    /\ ret = <<>>
    /\ RunIdle

NextResolve == \E crate_name \in CrateNames : GetCrateDependencies(crate_name)

SpecResolve == InitResolve /\ [][NextResolve]_vars

(***************************************************************************)
(* The partition lookup, and the resolver on top of it, on partitions in   *)
(* every insertion order.                                                  *)
(***************************************************************************)
InitPartition ==
    /\ crate_mapping \in MappingsOver(KeySeqs)
    /\ nodes = [c \in Components |-> "completed"]
    /\ edges \in SeqsUpTo(EdgeRecs, MaxPartitionEdges)
    /\ op = "init"
    /\ arg = ""
    /\ ret = <<>>
    /\ RunIdle

NextPartition ==
    \/ \E component \in Components : GetCrateFromComponentOp(component)
    \/ \E crate_name \in CrateNames : GetCrateDependencies(crate_name)

SpecPartition == InitPartition /\ [][NextPartition]_vars

(***************************************************************************)
(* The version policy on one crate of up to MaxMembers members, each       *)
(* member declared with any status or not declared.                        *)
(***************************************************************************)
\* Member names, from the first crate of the source.
MemberPool == <<"types", "ir_catalog", "ir_rule", "ir_query", "ir_patch", "ir_strategy">>

VersionComponents == {MemberPool[i] : i \in 1..MaxMembers}

InitVersion ==
    /\ crate_mapping \in
          {<<>>} \cup {<<[name |-> DefaultCrate,
                          components |-> {MemberPool[i] : i \in 1..n}]>> :
                            n \in 0..MaxMembers}
    /\ nodes \in UNION {[D -> Status] : D \in SUBSET VersionComponents}
    /\ edges = <<>>
    /\ op = "init"
    /\ arg = ""
    /\ ret = <<>>
    /\ RunIdle

NextVersion == \E crate_name \in {DefaultCrate} : GetCrateVersionOp(crate_name)

SpecVersion == InitVersion /\ [][NextVersion]_vars

(***************************************************************************)
(* run(): one call of create_crate_structure per crate, in the insertion   *)
(* order of crate_mapping, then the workspace manifest.  run() catches no  *)
(* exception: an exception raised in a step ends the process.  Two things  *)
(* can raise: crate_name.split('-')[1] (IndexError on a name without a     *)
(* hyphen, after version and dependencies have been computed) and the file *)
(* system (OSError from write_text).                                       *)
(***************************************************************************)
\* A crate name without a hyphen.
UnhyphenatedCrate == "kotoba_cli"

HasHyphen(crate_name) == crate_name # UnhyphenatedCrate

RunCrateOrder == <<"kotoba-core", "kotoba-graph", "kotoba-storage", "kotoba_cli">>

RunKeySeqs ==
    {SelectSeq(RunCrateOrder, LAMBDA n : n \in K) : K \in SUBSET Range(RunCrateOrder)}

\* The outcomes of a write to the file system.
IoOutcomes == {"ok", "OSError"}

Event(kind, crate_name) == [kind |-> kind, crate |-> crate_name]

\* print("Generating ...") and the entry of the loop over the crates.
RunStart ==
    /\ pc.at = "idle"
    /\ pc' = [at |-> "crates", created |-> 0]
    /\ UNCHANGED <<crate_mapping, nodes, edges, op, arg, ret, events, files>>

\* One iteration of the loop: create_crate_structure(crate_name).
CreateCrateStructure ==
    /\ pc.at = "crates"
    /\ pc.created < Len(crate_mapping)
    /\ LET crate_name == crate_mapping[pc.created + 1].name
       IN  IF ~HasHyphen(crate_name)
           THEN /\ events' = events \o <<Event("resolve", crate_name),
                                          Event("raise", crate_name)>>
                /\ files' = files
                /\ pc' = [at |-> "raised", created |-> pc.created]
           ELSE \E dependencies \in
                        CrateDependencies(crate_mapping, nodes, edges, crate_name),
                   io \in IoOutcomes :
                    IF io = "ok"
                    THEN /\ events' = events \o <<Event("resolve", crate_name),
                                                   Event("write", crate_name)>>
                         /\ files' = files \o
                                <<[crate |-> crate_name, file |-> "Cargo.toml",
                                   content |-> CargoToml(crate_mapping, nodes,
                                                         crate_name, dependencies)],
                                  [crate |-> crate_name, file |-> "src/lib.rs",
                                   content |-> Title(crate_name)]>>
                         /\ pc' = [at |-> "crates", created |-> pc.created + 1]
                    ELSE /\ events' = events \o <<Event("resolve", crate_name),
                                                   Event("raise", crate_name)>>
                         /\ files' = files
                         /\ pc' = [at |-> "raised", created |-> pc.created]
    /\ UNCHANGED <<crate_mapping, nodes, edges, op, arg, ret>>

\* After the loop: the workspace manifest is generated and written.
WriteWorkspace ==
    /\ pc.at = "crates"
    /\ pc.created = Len(crate_mapping)
    /\ \E io \in IoOutcomes :
            IF io = "ok"
            THEN /\ events' = Append(events, Event("write_workspace", ""))
                 /\ files' = Append(files,
                                [crate |-> "", file |-> "Cargo.toml",
                                 content |-> WorkspaceCargoToml(crate_mapping)])
                 /\ pc' = [at |-> "done", created |-> pc.created]
            ELSE /\ events' = Append(events, Event("raise", ""))
                 /\ files' = files
                 /\ pc' = [at |-> "raised", created |-> pc.created]
    /\ UNCHANGED <<crate_mapping, nodes, edges, op, arg, ret>>

InitRun ==
    /\ crate_mapping \in MappingsOver(RunKeySeqs)
    /\ nodes = [c \in Components |-> "completed"]
    /\ edges \in SeqsUpTo(EdgeRecs, MaxPartitionEdges)
    /\ op = "init"
    /\ arg = ""
    /\ ret = <<>>
    /\ RunIdle

NextRun ==
    \/ RunStart
    \/ CreateCrateStructure
    \/ WriteWorkspace

SpecRun == InitRun /\ [][NextRun]_vars

(***************************************************************************)
(* The configuration the source ships: crate_mapping of __init__ and the   *)
(* nodes and edges of _load_dag_data, with every operation and run() on it.*)
(***************************************************************************)
\* Variant: http_ir listed in kotoba-core as well.
ShippedCrateMappingOverlap ==
    << [name |-> "kotoba-core",
        components |-> {"types", "ir_catalog", "ir_rule", "ir_query", "ir_patch",
                        "ir_strategy", "http_ir"}],
       [name |-> "kotoba-graph",
        components |-> {"graph_vertex", "graph_edge", "graph_core"}],
       [name |-> "kotoba-storage",
        components |-> {"storage_mvcc", "storage_merkle", "storage_lsm"}],
       [name |-> "kotoba-execution",
        components |-> {"execution_parser", "execution_engine", "planner_logical",
                        "planner_physical", "planner_optimizer"}],
       [name |-> "kotoba-rewrite",
        components |-> {"rewrite_matcher", "rewrite_applier", "rewrite_engine"}],
       [name |-> "kotoba-server",
        components |-> {"http_ir", "http_parser", "http_handlers", "http_engine",
                        "http_server", "frontend_component_ir", "frontend_route_ir",
                        "frontend_render_ir", "frontend_build_ir", "frontend_api_ir",
                        "frontend_framework"}] >>

ShippedCrateMapping ==
    << [name |-> "kotoba-core",
        components |-> {"types", "ir_catalog", "ir_rule", "ir_query", "ir_patch",
                        "ir_strategy"}],
       [name |-> "kotoba-graph",
        components |-> {"graph_vertex", "graph_edge", "graph_core"}],
       [name |-> "kotoba-storage",
        components |-> {"storage_mvcc", "storage_merkle", "storage_lsm"}],
       [name |-> "kotoba-execution",
        components |-> {"execution_parser", "execution_engine", "planner_logical",
                        "planner_physical", "planner_optimizer"}],
       [name |-> "kotoba-rewrite",
        components |-> {"rewrite_matcher", "rewrite_applier", "rewrite_engine"}],
       [name |-> "kotoba-server",
        components |-> {"http_ir", "http_parser", "http_handlers", "http_engine",
                        "http_server", "frontend_component_ir", "frontend_route_ir",
                        "frontend_render_ir", "frontend_build_ir", "frontend_api_ir",
                        "frontend_framework"}] >>

ShippedPending == {"http_parser", "http_handlers", "http_engine", "http_server"}

ShippedInProgress == {"frontend_framework"}

ShippedCompleted ==
    {"types", "ir_catalog", "ir_rule", "ir_query", "ir_patch", "ir_strategy",
     "graph_vertex", "graph_edge", "graph_core",
     "storage_mvcc", "storage_merkle", "storage_lsm",
     "execution_parser", "execution_engine", "planner_logical", "planner_physical",
     "planner_optimizer",
     "rewrite_matcher", "rewrite_applier", "rewrite_engine",
     "http_ir", "frontend_component_ir", "frontend_route_ir", "frontend_render_ir",
     "frontend_build_ir", "frontend_api_ir"}

ShippedNodes ==
    [c \in ShippedCompleted \cup ShippedPending \cup ShippedInProgress |->
        IF c \in ShippedPending THEN "pending"
        ELSE IF c \in ShippedInProgress THEN "in_progress"
        ELSE "completed"]

ShippedEdges ==
    << [from |-> "types", to |-> "ir_catalog"],
       [from |-> "types", to |-> "graph_vertex"],
       [from |-> "types", to |-> "graph_edge"],
       [from |-> "graph_vertex", to |-> "graph_core"],
       [from |-> "graph_edge", to |-> "graph_core"],
       [from |-> "types", to |-> "graph_core"] >>

InitShipped ==
    /\ crate_mapping = ShippedCrateMapping
    /\ nodes = ShippedNodes
    /\ edges = ShippedEdges
    /\ op = "init"
    /\ arg = ""
    /\ ret = <<>>
    /\ RunIdle

NextShipped ==
    \/ \E component \in DOMAIN nodes : GetCrateFromComponentOp(component)
    \/ \E crate_name \in Range(Keys(crate_mapping)) : GetCrateDependencies(crate_name)
    \/ \E crate_name \in Range(Keys(crate_mapping)) : GetCrateVersionOp(crate_name)
    \/ \E crate_name \in Range(Keys(crate_mapping)) : GenerateCargoToml(crate_name)
    \/ GenerateWorkspaceCargoToml
    \/ RunStart
    \/ CreateCrateStructure
    \/ WriteWorkspace

SpecShipped == InitShipped /\ [][NextShipped]_vars

(***************************************************************************)
(* Properties of the dependency resolver.                                  *)
(***************************************************************************)
Resolved == op = "get_crate_dependencies"

\* The edges whose consumer is a declared member of the crate.
InboundEdges(crate_name) ==
    {i \in 1..Len(edges) :
        /\ edges[i].to \in MembersOrEmpty(crate_mapping, crate_name)
        /\ edges[i].to \in DOMAIN nodes}

Owner(component) == GetCrateFromComponent(crate_mapping, component)

\* C1: the list returned by _get_crate_dependencies for a crate never contains
\* that crate itself, whatever the graph and the partition.
C1_NoSelfDependency ==
    Resolved => \A i \in 1..Len(ret) : ret[i] # arg

\* The default crate is resolved with two producers to drop: a fellow member, and
\* a component that no crate lists and that falls back to the default crate.
C1_Witness ==
    /\ Resolved
    /\ arg = DefaultCrate
    /\ \E i \in InboundEdges(arg) : edges[i].from \in MembersOf(crate_mapping, arg)
    /\ \E i \in InboundEdges(arg) :
            \A k \in 1..Len(crate_mapping) :
                edges[i].from \notin crate_mapping[k].components

\* C2: the list returned by _get_crate_dependencies names each crate at most once,
\* however many edges join the two crates.
C2_NoDuplicates ==
    Resolved => \A i, j \in 1..Len(ret) : i # j => ret[i] # ret[j]

\* Two edges from two members of one crate into the resolved crate give one entry.
C2_Witness ==
    /\ Resolved
    /\ Len(ret) = 1
    /\ \E i, j \in InboundEdges(arg) :
            /\ edges[i].from # edges[j].from
            /\ Owner(edges[i].from) = ret[1]
            /\ Owner(edges[j].from) = ret[1]

\* C3: a crate none of whose members consumes a producer owned by another crate
\* resolves to the empty list.
C3_NoExternalProducerGivesEmpty ==
    (/\ Resolved
     /\ \A i \in 1..Len(edges) :
            edges[i].to \in MembersOrEmpty(crate_mapping, arg)
                => Owner(edges[i].from) = arg)
        => ret = <<>>

\* A crate whose members depend only on each other.
C3_Witness ==
    /\ Resolved
    /\ ret = <<>>
    /\ InboundEdges(arg) # {}
    /\ \A i \in InboundEdges(arg) : edges[i].from \in MembersOf(crate_mapping, arg)
    /\ \E i \in 1..Len(edges) : i \notin InboundEdges(arg)

(***************************************************************************)
(* Properties of the partition lookup.                                     *)
(***************************************************************************)
Listing(component) ==
    {i \in 1..Len(crate_mapping) : component \in crate_mapping[i].components}

\* C8: _get_crate_from_component returns a crate for every component: the crate
\* that lists it, and kotoba-core when no crate lists it; so a producer that no
\* crate lists is resolved to kotoba-core and not to a failure.
C8_PackageOfTotal ==
    /\ op = "get_crate_from_component" =>
            /\ ret \in CrateNames
            /\ \A i \in Listing(arg) : ret = crate_mapping[i].name
            /\ Listing(arg) = {} => ret = "kotoba-core"
    /\ (Resolved /\ arg # "kotoba-core") =>
            \A i \in InboundEdges(arg) :
                Listing(edges[i].from) = {} => "kotoba-core" \in Range(ret)

\* A component that no crate lists, in a partition without kotoba-core.
C8_Witness ==
    /\ op = "get_crate_from_component"
    /\ Listing(arg) = {}
    /\ ~HasCrate(crate_mapping, "kotoba-core")
    /\ Len(crate_mapping) = 2
    /\ ret = "kotoba-core"

(***************************************************************************)
(* The crate manifests: every crate of the partition is emitted, any       *)
(* number of times, on a graph whose components are all declared.          *)
(***************************************************************************)
InitManifest ==
    /\ crate_mapping \in MappingsOver(SortedKeySeqs)
    /\ nodes \in [Components -> {"completed", "pending"}]
    /\ edges \in EdgeLists
    /\ op = "init"
    /\ arg = ""
    /\ ret = <<>>
    /\ RunIdle

NextManifest ==
    \E crate_name \in Range(Keys(crate_mapping)) : GenerateCargoToml(crate_name)

SpecManifest == InitManifest /\ [][NextManifest]_vars

(***************************************************************************)
(* The workspace manifest on partitions in every insertion order.          *)
(***************************************************************************)
InitWorkspace ==
    /\ crate_mapping \in MappingsOver(KeySeqs)
    /\ nodes = [c \in Components |-> "completed"]
    /\ edges = <<>>
    /\ op = "init"
    /\ arg = ""
    /\ ret = <<>>
    /\ RunIdle

NextWorkspace == GenerateWorkspaceCargoToml

SpecWorkspace == InitWorkspace /\ [][NextWorkspace]_vars

(***************************************************************************)
(* Properties of the version policy.                                       *)
(***************************************************************************)
Release == "0.1.0"
Alpha == "0.1.0-alpha"
Dev == "0.1.0-dev"
EmptyPackage == "EmptyPackage"

Versioned == op = "get_crate_version"

\* The tier of the ratio completed / total, in tenths.
TierOfRatio(completed, total) ==
    IF 10 * completed >= 8 * total THEN Release
    ELSE IF 10 * completed >= 5 * total THEN Alpha
    ELSE Dev

TierRank(v) == CASE v = Dev -> 0 [] v = Alpha -> 1 [] v = Release -> 2

AllMembers == MembersOrEmpty(crate_mapping, arg)
DeclaredMembers == {c \in AllMembers : c \in DOMAIN nodes}
CompletedOf(S) == {c \in S : c \in DOMAIN nodes /\ nodes[c] = "completed"}

C5_EmptyPackageRaises ==
    (Versioned /\ AllMembers = {}) => ret = EmptyPackage

\* C6: with the total fixed, a larger number of completed components never gives a
\* lower tier: the tier returned is at least the tier of every smaller count and at
\* most the tier of every larger one.
C6_Monotonic ==
    (Versioned /\ Cardinality(DeclaredMembers) > 0) =>
        LET total == Cardinality(DeclaredMembers)
            completed == Cardinality(CompletedOf(DeclaredMembers))
        IN  \A c1, c2 \in 0..total :
                (c1 <= completed /\ completed <= c2) =>
                    /\ TierRank(VersionOfCounts(c1, total)) <= TierRank(ret)
                    /\ TierRank(ret) <= TierRank(VersionOfCounts(c2, total))

\* An alpha crate with both a lower and a higher count to compare with.
C6_Witness ==
    /\ Versioned
    /\ Cardinality(DeclaredMembers) = 4
    /\ Cardinality(CompletedOf(DeclaredMembers)) = 2
    /\ ret = Alpha

(***************************************************************************)
(* Properties of the manifests.                                            *)
(***************************************************************************)
Emitted == op = "generate_cargo_toml"

PathEntries(manifest) == SelectSeq(manifest.dependencies, LAMBDA e : e.kind = "path")

\* The crates, other than the crate itself, that own a producer of a member.
ResolveSet(crate_name) ==
    {Owner(edges[i].from) : i \in InboundEdges(crate_name)} \ {crate_name}

\* C7: generating the manifest of a crate again, on the same graph and partition,
\* gives the same manifest, the order of its dependency entries included.
C7_SameManifestOnRerun ==
    [][(Emitted /\ op' = "generate_cargo_toml" /\ arg' = arg) => ret' = ret]_vars

\* C9: the manifest of a crate has exactly one path entry for each crate its members
\* depend on and no other path entry, each with the version currently computed for
\* that crate.
C9_ManifestDependencies ==
    Emitted =>
        LET entries == PathEntries(ret)
        IN  /\ {entries[i].name : i \in 1..Len(entries)} = ResolveSet(arg)
            /\ Len(entries) = Cardinality(ResolveSet(arg))
            /\ \A i \in 1..Len(entries) :
                    entries[i].version =
                        GetCrateVersion(crate_mapping, nodes, entries[i].name)
            /\ Len(ret.dependencies) = Len(CommonDeps) + Len(entries)

\* Two dependencies with different versions: one crate has nothing completed, the
\* other is complete.
C9_Witness ==
    /\ Emitted
    /\ Len(PathEntries(ret)) = 2
    /\ PathEntries(ret)[1].version = "0.1.0-dev"
    /\ PathEntries(ret)[2].version = "0.1.0"
    /\ HasCrate(crate_mapping, PathEntries(ret)[2].name)

RunEnded == pc.at \in {"done", "raised"}

EventsOf(kind) == {i \in 1..Len(events) : events[i].kind = kind}

\* C11: in a pass, no manifest is written before the resolution of every crate has
\* succeeded: every write of a crate manifest comes after the last resolution.
C11_WritesAfterAllResolution ==
    \A i \in EventsOf("write"), j \in EventsOf("resolve") : j < i

\* C12: a failure on one crate does not end the pass: when the pass has ended, every
\* crate has been resolved, and every crate on which nothing was raised has its
\* manifest written.
C12_FailureDoesNotAbort ==
    RunEnded =>
        \A k \in 1..Len(crate_mapping) :
            LET crate_name == crate_mapping[k].name
            IN  /\ \E i \in EventsOf("resolve") : events[i].crate = crate_name
                /\ \/ \E i \in EventsOf("write") : events[i].crate = crate_name
                   \/ \E i \in EventsOf("raise") : events[i].crate = crate_name

(***************************************************************************)
(* The resolver against its reference definition.                          *)
(***************************************************************************)
\* The owners of the producers of every member of the crate, declared or not.
ReferenceSet(crate_name) ==
    {Owner(edges[i].from) :
        i \in {j \in 1..Len(edges) :
                    edges[j].to \in MembersOrEmpty(crate_mapping, crate_name)}}
        \ {crate_name}

GraphComponents ==
    DOMAIN nodes \cup {edges[i].from : i \in 1..Len(edges)}
                 \cup {edges[i].to : i \in 1..Len(edges)}

\* C14: in the shipped configuration every component of the graph is listed in
\* exactly one crate, and _get_crate_from_component gives, for every component a
\* crate lists, that crate.
C14_ShippedPartitionTotalDisjoint ==
    /\ \A c \in GraphComponents : Cardinality(Listing(c)) = 1
    /\ \A k \in 1..Len(crate_mapping) :
            \A c \in crate_mapping[k].components :
                GetCrateFromComponent(crate_mapping, c) = crate_mapping[k].name
    /\ op = "get_crate_from_component" =>
            \E k \in Listing(arg) : ret = crate_mapping[k].name

\* The lookup of a component of the last crate.
C14_Witness ==
    /\ op = "get_crate_from_component"
    /\ arg = "http_ir"
    /\ ret = "kotoba-server"
    /\ Cardinality(GraphComponents) = 31

====
